---- MODULE Spec2Model ----
(***************************************************************************)
(* Buffered channels (src/channel.c) over the selector list                *)
(* (src/linked_list.c).  Threads call channel_send, channel_receive,       *)
(* channel_non_blocking_send, channel_non_blocking_receive, channel_close, *)
(* channel_destroy and channel_select; every step between two synchronisation points of    *)
(* the C code is one action.                                               *)
(***************************************************************************)
EXTENDS Integers, Sequences, FiniteSets, TLC

\* ---------------------------------------------------------------- bounds
NumThreads == 3
NumChans == 2
MaxCap == 2
MaxOps == 3
MaxVal == 3
MaxIntents == 2
MaxSelects == 1
SemMax == 2

Threads == 1..NumThreads
Chans == 1..NumChans
MaxNodes == MaxSelects * MaxIntents
NodeIds == 1..MaxNodes

\* Pointers: a node, NULL, or an address that is no node at all.
NULL == 0
WILD == -1
Ptrs == NodeIds \cup {NULL, WILD}
\* &select of thread t is the address of the local sem_t in t's stack frame.
Tokens == Threads
DataPtrs == Tokens \cup {NULL, WILD}

Dirs == {"SEND", "RECV", "OTHER"}
Intent == [ch : Chans, dir : Dirs]
\* The intent vectors passed to channel_select: of every length up to
\* MaxIntents, on distinct channels in increasing order (the channels are
\* created alike, so the order of the channels is no restriction).
IntentLists ==
    {l \in UNION {[1..n -> Intent] : n \in 1..MaxIntents} :
        \A i, j \in 1..Len(l) : i < j => l[i].ch < l[j].ch}

VARIABLES
    cap,        \* buffer capacity of each channel (buffer_create(size))
    buf,        \* channel->buffer contents, oldest first
    closed,     \* channel->is_closed
    mutex,      \* channel->mutex: the holding thread, 0 when free
    head,       \* channel->select->head
    count,      \* channel->select->count
    nstate,     \* heap state of each list node: "fresh", "live", "freed"
    nnext,      \* node->next
    nprev,      \* node->prev
    ndata,      \* node->data
    semAlive,   \* the sem_t of each thread: between sem_init and sem_destroy
    semCount,   \* its value
    th,         \* per thread: program counter and locals
    sent,       \* per channel: values of the sends that completed with SUCCESS
    rcvd,       \* per channel: values of the receives that completed with SUCCESS
    closeRet,   \* per channel: channel_close has returned SUCCESS
    reg,        \* per channel: the data inserted into its list and not yet removed
    nextVal,    \* next value handed to a sender
    nops,       \* number of API calls started
    nsel,       \* number of channel_select calls started
    ubPost,     \* some sem_post was applied to a destroyed semaphore
    crashed,    \* the process died (NULL / wild dereference, abort)
    destroyed   \* per channel: channel_destroy has freed it

chanVars == <<cap, buf, closed, mutex>>
listVars == <<head, count, nstate, nnext, nprev, ndata>>
semVars == <<semAlive, semCount>>
histVars == <<sent, rcvd, closeRet, reg>>
vars == <<cap, buf, closed, mutex, head, count, nstate, nnext, nprev, ndata,
          semAlive, semCount, th, sent, rcvd, closeRet, reg, nextVal, nops, nsel, ubPost, crashed,
          destroyed>>

\* ---------------------------------------------------------------- buffer
\* buffer.c is not among the sources; modelled from the interface the
\* specification gives: add -> {OK, FULL}, remove -> {OK, EMPTY}, FIFO.
buffer_add_ok(b, k) == Len(b) < k
buffer_add(b, v) == Append(b, v)
buffer_remove_ok(b) == Len(b) > 0
buffer_remove(b) == Tail(b)
buffer_front(b) == Head(b)

\* ---------------------------------------------------------------- threads
\* pc: "idle"    outside the library (ret holds the last status returned)
\*     "lock"    in pthread_mutex_lock at the head of function fn
\*     "cwait"   in pthread_cond_wait, mutex released
\*     "relock"  leaving pthread_cond_wait, re-acquiring the mutex
\*     "foreach" inside list_foreach, mutex held, cur the loop's node
\*     "swait"   in sem_wait(&select)
\*     "hung"    in a loop that never ends
\*     "dead"    the call brought the process down
\* startClosed, seen, nexec, execi, waited, posts, nolock record the call's
\* history: whether channel_close had returned SUCCESS when the call began,
\* the buffer length the function found, the intents a channel_select call
\* has performed, whether it has reached sem_wait, the sem_post calls of the
\* list_foreach under way, and whether the call read or wrote the channel
\* without holding its mutex.
IdleThread ==
    [pc |-> "idle", kind |-> "none", fn |-> "none", ch |-> 1, val |-> 0, got |-> 0,
     ints |-> <<>>, si |-> 0, sj |-> 0, st |-> "NONE", sidx |-> 0, cur |-> NULL,
     ret |-> "NONE", startClosed |-> FALSE, seen |-> 0, nexec |-> 0, execi |-> 0,
     waited |-> FALSE, posts |-> 0, nolock |-> FALSE]

Init ==
    /\ cap \in {[c \in Chans |-> k] : k \in 0..MaxCap}
    /\ buf = [c \in Chans |-> <<>>]
    /\ closed = [c \in Chans |-> FALSE]
    /\ mutex = [c \in Chans |-> 0]
    /\ head = [c \in Chans |-> NULL]
    /\ count = [c \in Chans |-> 0]
    /\ nstate = [n \in NodeIds |-> "fresh"]
    /\ nnext = [n \in NodeIds |-> NULL]
    /\ nprev = [n \in NodeIds |-> NULL]
    /\ ndata = [n \in NodeIds |-> NULL]
    /\ semAlive = [t \in Threads |-> FALSE]
    /\ semCount = [t \in Threads |-> 0]
    /\ th = [t \in Threads |-> IdleThread]
    /\ sent = [c \in Chans |-> <<>>]
    /\ rcvd = [c \in Chans |-> <<>>]
    /\ closeRet = [c \in Chans |-> FALSE]
    /\ reg = [c \in Chans |-> {}]
    /\ nextVal = 1
    /\ nops = 0
    /\ nsel = 0
    /\ ubPost = FALSE
    /\ crashed = FALSE
    /\ destroyed = [c \in Chans |-> FALSE]

\* ---------------------------------------------------------------- linked list
\* A list is seen through a memory record
\*   [head, count, state, next, prev, data, crash, hang]
\* head and count are the fields of the list_t at hand; state/next/prev/data
\* are the node heap; crash and hang tell that the list function at work
\* brought the process down, or runs for ever.  A node that is not "live" is unallocated memory: what a
\* read of it returns is not determined by the program.
CRASH == -2
HANG == -3

Mem(hd, cnt) ==
    [head |-> hd, count |-> cnt, state |-> nstate, next |-> nnext, prev |-> nprev,
     data |-> ndata, crash |-> FALSE, hang |-> FALSE]

RdPtr(M, f, p) == IF M.state[p] = "live" THEN {f[p]} ELSE Ptrs
RdData(M, p) == IF M.state[p] = "live" THEN {M.data[p]} ELSE DataPtrs

\* malloc(sizeof(list_node_t)): a block that is not in use, possibly one that
\* was freed before.
MallocChoices(M) ==
    LET fresh == {n \in NodeIds : M.state[n] = "fresh"}
        freed == {n \in NodeIds : M.state[n] = "freed"}
    IN  freed \cup (IF fresh = {} THEN {} ELSE {CHOOSE n \in fresh : \A m \in fresh : n <= m})

\* list_insert with the empty-list branch falling through into the general
\* case, as written in the source.
list_insert(M, node, d) ==
    LET m1 == [M EXCEPT !.state[node] = "live", !.data[node] = d]
        m2 == IF m1.head = NULL
              THEN [m1 EXCEPT !.head = node, !.next[node] = NULL, !.prev[node] = NULL]
              ELSE m1
        curr == m2.head
        m3 == [m2 EXCEPT !.head = node, !.next[node] = curr, !.prev[node] = NULL]
    IN  IF curr = WILD
        THEN [m3 EXCEPT !.crash = TRUE]
        ELSE [m3 EXCEPT !.prev[curr] = node, !.count = @ + 1]

\* list_find: the set of possible results, a node, NULL, CRASH (dereference of
\* an address that is no node) or HANG (the walk never ends).
RECURSIVE FindFrom(_, _, _, _)
FindFrom(M, p, d, seen) ==
    IF p = NULL THEN {NULL}
    ELSE IF p = WILD THEN {CRASH}
    ELSE IF p \in seen THEN {HANG}
    ELSE IF M.state[p] = "live"
         THEN IF M.data[p] = d THEN {p} ELSE FindFrom(M, M.next[p], d, seen \cup {p})
         ELSE {p} \cup UNION {FindFrom(M, q, d, seen \cup {p}) : q \in Ptrs}

list_find(M, d) == FindFrom(M, M.head, d, {})

\* free(node)
FreeNode(M, node) ==
    IF M.state[node] = "live"
    THEN {[M EXCEPT !.state[node] = "freed"]}
    ELSE {[M EXCEPT !.state[node] = "freed"], [M EXCEPT !.crash = TRUE]}

\* list_remove: the set of possible resulting memories.
list_remove(M, node) ==
    IF node = NULL THEN {M}
    ELSE IF node = WILD THEN {[M EXCEPT !.crash = TRUE]}
    ELSE UNION {
        LET m1 == IF pv = NULL THEN [M EXCEPT !.head = nx]
                  ELSE IF pv = WILD THEN [M EXCEPT !.crash = TRUE]
                  ELSE [M EXCEPT !.next[pv] = nx]
            m2 == IF nx = NULL \/ m1.crash THEN m1
                  ELSE IF nx = WILD THEN [m1 EXCEPT !.crash = TRUE]
                  ELSE [m1 EXCEPT !.prev[nx] = pv]
            m3 == [m2 EXCEPT !.next[node] = NULL, !.prev[node] = NULL,
                             !.data[node] = NULL, !.count = @ - 1]
        IN  IF m2.crash THEN {m2} ELSE FreeNode(m3, node)
        : pv \in RdPtr(M, M.prev, node), nx \in RdPtr(M, M.next, node) }

\* list_destroy (linked_list.c 12-17): list_remove(list, list->head) while
\* count != 0, then free(list); the set of possible resulting memories.  With
\* head = NULL and count != 0 list_remove returns at once and the loop never
\* ends; a count that no chain of removals brings to 0 (fuel used up) ends in
\* one of the two.
RECURSIVE DestroyFrom(_, _)
DestroyFrom(M, fuel) ==
    IF M.crash \/ M.count = 0 THEN {M}
    ELSE IF M.head = NULL THEN {[M EXCEPT !.hang = TRUE]}
    ELSE IF fuel = 0 THEN {[M EXCEPT !.hang = TRUE], [M EXCEPT !.crash = TRUE]}
    ELSE UNION {DestroyFrom(M2, fuel - 1) : M2 \in list_remove(M, M.head)}

list_destroy(M) == DestroyFrom(M, MaxNodes + 1)

\* ---------------------------------------------------------------- semaphores
\* sem_post(d) as called by list_foreach: the set of possible outcomes
\* [count, ub, crash] for the semaphore function.
sem_post(d) ==
    IF d = NULL \/ d = WILD
    THEN {[sc |-> semCount, ub |-> ubPost, crash |-> TRUE]}
    ELSE IF semAlive[d]
    THEN {[sc |-> [semCount EXCEPT ![d] = IF @ < SemMax THEN @ + 1 ELSE @],
           ub |-> ubPost, crash |-> FALSE]}
    ELSE {[sc |-> semCount, ub |-> TRUE, crash |-> FALSE],
          [sc |-> semCount, ub |-> TRUE, crash |-> TRUE]}


\* ---------------------------------------------------------------- helpers
PlainFns == {"send", "recv", "nbsend", "nbrecv", "close"}
Terminating == {"SUCCESS", "GEN_ERROR", "DESTROY_ERROR", "CLOSED_ERROR"}

\* Intent i (0-based, as in the C code) of thread record r.
IntentAt(r, i) == r.ints[i + 1]
NInts(r) == Len(r.ints)

\* Threads blocked in pthread_cond_wait on a condition variable of channel c:
\* senders wait on channel->recv, receivers on channel->send.
WaitersOn(c, cond) ==
    {u \in Threads : /\ th[u].pc = "cwait"
                     /\ th[u].ch = c
                     /\ th[u].fn = (IF cond = "recv" THEN "send" ELSE "recv")}

\* The threads of W leave pthread_cond_wait and go for the mutex again.
Woken(f, W) == [u \in Threads |-> IF u \in W THEN [f[u] EXCEPT !.pc = "relock"] ELSE f[u]]

\* pthread_cond_signal wakes one waiter when there is one.
SignalChoices(c, cond) ==
    IF WaitersOn(c, cond) = {} THEN {{}} ELSE {{u} : u \in WaitersOn(c, cond)}

\* channel_select starts its deregistration loop (channel.c 223-225).
StartDereg(r, status) ==
    [r EXCEPT !.st = status, !.sj = 0, !.fn = "sdereg", !.ch = IntentAt(r, 0).ch,
              !.pc = "lock"]

\* channel_select attempts intent i (channel.c 218-222): the call of the
\* non-blocking operation, or GEN_ERROR at once for a direction that is
\* neither SEND nor RECV.
Attempt(r, i) ==
    LET it == IntentAt(r, i) IN
    IF it.dir = "SEND"
    THEN [r EXCEPT !.si = i, !.fn = "nbsend", !.ch = it.ch, !.pc = "lock"]
    ELSE IF it.dir = "RECV"
    THEN [r EXCEPT !.si = i, !.fn = "nbrecv", !.ch = it.ch, !.pc = "lock"]
    ELSE StartDereg([r EXCEPT !.si = i], "GEN_ERROR")

\* channel_select after an attempt returned `status` (channel.c 223-234):
\* a terminating status starts deregistration, otherwise the sweep goes on
\* and after the last intent the thread waits on its semaphore.
AfterAttempt(r, status) ==
    IF status \in Terminating
    THEN StartDereg(r, status)
    ELSE IF r.si + 1 < NInts(r)
    THEN Attempt([r EXCEPT !.st = status], r.si + 1)
    ELSE [r EXCEPT !.st = status, !.pc = "swait", !.waited = TRUE]

\* The thread is back in the caller with `status`.
Returned(r, status) ==
    [r EXCEPT !.pc = "idle", !.ret = status, !.st = status, !.fn = "none",
              !.cur = NULL, !.sj = 0]

\* A channel function returns `status`: to the caller of the API, or to
\* channel_select when it called the non-blocking operation.
Finish(r, status) ==
    IF r.kind = "select" THEN AfterAttempt(r, status) ELSE Returned(r, status)

\* ---------------------------------------------------------------- API calls
\* Threads are interchangeable: they are numbered in the order of their
\* first call.
CanStart(t) ==
    /\ th[t].pc = "idle" /\ nops < MaxOps
    /\ \A u \in Threads : u < t => th[u].kind # "none"

\* The channels a caller can still name: a channel_t* that channel_destroy has
\* freed is passed to no further call.
LiveChans == {c \in Chans : ~destroyed[c]}

Begin(kind, c, v) ==
    [IdleThread EXCEPT !.pc = "lock", !.kind = kind, !.fn = kind, !.ch = c, !.val = v,
                       !.startClosed = closeRet[c]]

\* The thread records with which thread t can be at the pthread_mutex_lock
\* at the head of channel function fn: a call it makes now, or one it is
\* already in (blocked on the mutex, or on the way out of pthread_cond_wait).
\* A call has no effect before its first pthread_mutex_lock.
AtLock(t, fn) ==
    IF th[t].pc = "idle"
    THEN IF CanStart(t) /\ (fn \in {"send", "nbsend"} => nextVal <= MaxVal)
         THEN {Begin(fn, c, IF fn \in {"send", "nbsend"} THEN nextVal ELSE 0) : c \in LiveChans}
         ELSE {}
    ELSE IF th[t].fn = fn /\ th[t].pc \in {"lock", "relock"} THEN {th[t]} ELSE {}

\* The call counters, advanced when the step of thread t is a new call.
Counted(t, fn) ==
    /\ nops' = IF th[t].pc = "idle" THEN nops + 1 ELSE nops
    /\ nextVal' = IF th[t].pc = "idle" /\ fn \in {"send", "nbsend"}
                  THEN nextVal + 1 ELSE nextVal

\* A call of send / receive / try_send / try_receive / close that finds the
\* mutex taken: the thread blocks in pthread_mutex_lock.
CallBlocked(t, fn, c) ==
    /\ ~crashed /\ CanStart(t) /\ mutex[c] # 0 /\ c \in LiveChans
    /\ fn \in {"send", "nbsend"} => nextVal <= MaxVal
    /\ th' = [th EXCEPT ![t] = Begin(fn, c, IF fn \in {"send", "nbsend"} THEN nextVal ELSE 0)]
    /\ Counted(t, fn)
    /\ UNCHANGED <<chanVars, listVars, semVars, histVars, nsel, ubPost, crashed, destroyed>>

\* channel_select entry (channel.c 199-204): sem_init(&select, 0, 0) and the
\* first pthread_mutex_lock of the registration loop.
StartSelect(t, ints) ==
    /\ ~crashed /\ CanStart(t) /\ nsel < MaxSelects
    /\ \A i \in 1..Len(ints) : ints[i].ch \in LiveChans
    /\ (\E i \in 1..Len(ints) : ints[i].dir = "SEND") => nextVal <= MaxVal
    /\ th' = [th EXCEPT ![t] =
                [Begin("select", ints[1].ch, nextVal) EXCEPT !.fn = "sreg", !.ints = ints]]
    /\ nextVal' = IF \E i \in 1..Len(ints) : ints[i].dir = "SEND"
                  THEN nextVal + 1 ELSE nextVal
    /\ nops' = nops + 1
    /\ nsel' = nsel + 1
    /\ semAlive' = [semAlive EXCEPT ![t] = TRUE]
    /\ semCount' = [semCount EXCEPT ![t] = 0]
    /\ UNCHANGED <<chanVars, listVars, histVars, ubPost, crashed, destroyed>>

\* ---------------------------------------------------------------- mutex, condition variables
Hold(t, c) == mutex' = [mutex EXCEPT ![c] = t]
Unlock(c) == mutex' = [mutex EXCEPT ![c] = 0]

\* pthread_cond_wait may return without a signal.
SpuriousWake(t) ==
    /\ ~crashed /\ th[t].pc = "cwait"
    /\ th' = [th EXCEPT ![t].pc = "relock"]
    /\ UNCHANGED <<chanVars, listVars, semVars, histVars, nextVal, nops, nsel, ubPost, crashed, destroyed>>

\* pthread_mutex_unlock at the end of a round of the registration or the
\* deregistration loop of channel_select (channel.c 206, 212, 227), by the
\* thread that locked the mutex at the head of the round.
Release_Missing(t, c) == mutex' = [mutex EXCEPT ![c] = t]
Release(t, c) == mutex' = [mutex EXCEPT ![c] = 0]

\* ---------------------------------------------------------------- channel functions
\* `if (channel->is_closed)` at the head of function fn and after
\* pthread_cond_wait: a closed channel is refused whatever its buffer holds.
ClosedCheck_Drain(fn, c) == closed[c] /\ (fn \in {"recv", "nbrecv"} => buf[c] = <<>>)
ClosedCheck(fn, c) == closed[c]

\* buffer_remove(channel->buffer, data) stores the removed element in *data.
Received_NotStored(r, b) == r
Received(r, b) == [r EXCEPT !.got = buffer_front(b)]

\* The status of channel_non_blocking_send / channel_non_blocking_receive
\* when the buffer refuses the operation.
NbSendRefused_Empty == "CHANNEL_EMPTY"
NbSendRefused == "CHANNEL_FULL"
NbReceiveRefused_Full == "CHANNEL_FULL"
NbReceiveRefused == "CHANNEL_EMPTY"

Crash ==
    /\ crashed' = TRUE
    /\ UNCHANGED <<chanVars, listVars, semVars, th, histVars, nextVal, nops, nsel, ubPost,
                   destroyed>>

\* What the completed operation fn of record r adds to the history of channel c.
Completed(r, c) ==
    /\ sent' = IF r.fn \in {"send", "nbsend"}
               THEN [sent EXCEPT ![c] = Append(@, r.val)] ELSE sent
    /\ rcvd' = IF r.fn \in {"recv", "nbrecv"}
               THEN [rcvd EXCEPT ![c] = Append(@, r.got)] ELSE rcvd
    /\ closeRet' = IF r.fn = "close" THEN [closeRet EXCEPT ![c] = TRUE] ELSE closeRet
    /\ UNCHANGED reg

\* After the buffer or the closed flag was changed by thread t (record r, the
\* threads of W signalled): list_foreach(channel->select, sem_post) starts at
\* the list's head; on an empty list it is over at once, the mutex is
\* released and SUCCESS returned.
Posting(t, r, c, W) ==
    LET r1 == [r EXCEPT !.seen = Len(buf[c]),
                        !.nexec = IF r.kind = "select" THEN @ + 1 ELSE @,
                        !.execi = IF r.kind = "select" THEN r.si ELSE @,
                        !.posts = 0]
    IN
    IF head[c] = NULL
    THEN /\ Unlock(c)
         /\ th' = Woken([th EXCEPT ![t] = Finish(r1, "SUCCESS")], W)
         /\ Completed(r1, c)
    ELSE /\ Hold(t, c)
         /\ th' = Woken([th EXCEPT ![t] = [r1 EXCEPT !.pc = "foreach", !.cur = head[c]]], W)
         /\ UNCHANGED histVars

\* The function returns `status` without having changed the channel.
Refuse_Wakes(t, r, c, status) ==
    /\ Unlock(c)
    /\ th' = Woken([th EXCEPT ![t] = Finish([r EXCEPT !.seen = Len(buf[c])], status)],
                   WaitersOn(c, "send") \cup WaitersOn(c, "recv"))
    /\ UNCHANGED <<buf, closed, histVars>>
Refuse(t, r, c, status) ==
    /\ Unlock(c)
    /\ th' = [th EXCEPT ![t] = Finish([r EXCEPT !.seen = Len(buf[c])], status)]
    /\ UNCHANGED <<buf, closed, histVars>>

\* pthread_cond_wait(&channel->recv / &channel->send, &channel->mutex).
CondWait(t, r, c) ==
    /\ Unlock(c)
    /\ th' = [th EXCEPT ![t] = [r EXCEPT !.pc = "cwait"]]
    /\ UNCHANGED <<buf, closed, histVars>>

\* channel_send (channel.c 22-36), from its first lock or from the return of
\* pthread_cond_wait.
Send(t) ==
    /\ ~crashed
    /\ \E r \in AtLock(t, "send") :
         LET c == r.ch IN
         /\ mutex[c] = 0
         /\ IF ClosedCheck(r.fn, c)
            THEN Refuse(t, r, c, "CLOSED_ERROR")
            ELSE IF buffer_add_ok(buf[c], cap[c])
            THEN /\ buf' = [buf EXCEPT ![c] = buffer_add(@, r.val)]
                 /\ \E W \in SignalChoices(c, "send") : Posting(t, r, c, W)
                 /\ UNCHANGED closed
            ELSE CondWait(t, r, c)
    /\ Counted(t, "send")
    /\ UNCHANGED <<cap, listVars, semVars, nsel, ubPost, crashed, destroyed>>

\* channel_receive (channel.c 54-68).
Receive(t) ==
    /\ ~crashed
    /\ \E r \in AtLock(t, "recv") :
         LET c == r.ch IN
         /\ mutex[c] = 0
         /\ IF ClosedCheck(r.fn, c)
            THEN Refuse(t, r, c, "CLOSED_ERROR")
            ELSE IF buffer_remove_ok(buf[c])
            THEN /\ buf' = [buf EXCEPT ![c] = buffer_remove(@)]
                 /\ \E W \in SignalChoices(c, "recv") :
                      Posting(t, Received(r, buf[c]), c, W)
                 /\ UNCHANGED closed
            ELSE CondWait(t, r, c)
    /\ Counted(t, "recv")
    /\ UNCHANGED <<cap, listVars, semVars, nsel, ubPost, crashed, destroyed>>

\* channel_non_blocking_send (channel.c 86-98), called by a thread or by
\* channel_select.
NbSend(t) ==
    /\ ~crashed
    /\ \E r \in AtLock(t, "nbsend") :
         LET c == r.ch IN
         /\ mutex[c] = 0
         /\ IF ClosedCheck(r.fn, c)
            THEN Refuse(t, r, c, "CLOSED_ERROR")
            ELSE IF buffer_add_ok(buf[c], cap[c])
            THEN /\ buf' = [buf EXCEPT ![c] = buffer_add(@, r.val)]
                 /\ \E W \in SignalChoices(c, "send") : Posting(t, r, c, W)
                 /\ UNCHANGED closed
            ELSE Refuse(t, r, c, NbSendRefused)
    /\ Counted(t, "nbsend")
    /\ UNCHANGED <<cap, listVars, semVars, nsel, ubPost, crashed, destroyed>>

\* channel_non_blocking_receive (channel.c 116-128).
NbReceive(t) ==
    /\ ~crashed
    /\ \E r \in AtLock(t, "nbrecv") :
         LET c == r.ch IN
         /\ mutex[c] = 0
         /\ IF ClosedCheck(r.fn, c)
            THEN Refuse(t, r, c, "CLOSED_ERROR")
            ELSE IF buffer_remove_ok(buf[c])
            THEN /\ buf' = [buf EXCEPT ![c] = buffer_remove(@)]
                 /\ \E W \in SignalChoices(c, "recv") :
                      Posting(t, Received(r, buf[c]), c, W)
                 /\ UNCHANGED closed
            ELSE Refuse(t, r, c, NbReceiveRefused)
    /\ Counted(t, "nbrecv")
    /\ UNCHANGED <<cap, listVars, semVars, nsel, ubPost, crashed, destroyed>>

\* channel_close (channel.c 145-154): both condition variables are broadcast.
Close(t) ==
    /\ ~crashed
    /\ \E r \in AtLock(t, "close") :
         LET c == r.ch IN
         /\ mutex[c] = 0
         /\ IF ClosedCheck(r.fn, c)
            THEN Refuse(t, r, c, "CLOSED_ERROR")
            ELSE /\ closed' = [closed EXCEPT ![c] = TRUE]
                 /\ Posting(t, r, c, WaitersOn(c, "send") \cup WaitersOn(c, "recv"))
                 /\ UNCHANGED buf
    /\ Counted(t, "close")
    /\ UNCHANGED <<cap, listVars, semVars, nsel, ubPost, crashed, destroyed>>

\* One more call of sem_post by the list_foreach of record r; the count stops
\* at MaxNodes + 1, more calls than a list can have nodes.
Posted(r) == [r EXCEPT !.posts = IF @ <= MaxNodes THEN @ + 1 ELSE @]

\* One round of list_foreach(channel->select, (void*)sem_post)
\* (linked_list.c 90-94) on a node; after the last node pthread_mutex_unlock
\* and return SUCCESS.
Foreach(t) ==
    LET c == th[t].ch
        p == th[t].cur
        M == Mem(head[c], count[c])
    IN
    /\ ~crashed /\ th[t].pc = "foreach"
    /\ IF p = WILD
       THEN Crash
       ELSE \E d \in RdData(M, p), nx \in RdPtr(M, M.next, p) :
              \E o \in sem_post(d) :
                IF o.crash
                THEN Crash
                ELSE /\ semCount' = o.sc
                     /\ ubPost' = o.ub
                     /\ IF nx = NULL
                        THEN /\ Unlock(c)
                             /\ th' = [th EXCEPT ![t] = Finish(Posted(@), "SUCCESS")]
                             /\ Completed(th[t], c)
                        ELSE /\ th' = [th EXCEPT ![t] = [Posted(@) EXCEPT !.cur = nx]]
                             /\ UNCHANGED <<mutex, histVars>>
                     /\ UNCHANGED <<cap, buf, closed, listVars, semAlive, nextVal, nops,
                                    nsel, crashed, destroyed>>

\* ---------------------------------------------------------------- channel_select
\* The memory M written back as the list of channel c and the node heap.
StoreMem(M, c) ==
    /\ head' = [head EXCEPT ![c] = M.head]
    /\ count' = [count EXCEPT ![c] = M.count]
    /\ nstate' = M.state
    /\ nnext' = M.next
    /\ nprev' = M.prev
    /\ ndata' = M.data

\* One round of the registration loop (channel.c 204-212): a closed channel
\* ends the call at once (sem_destroy, return CLOSED_ERROR; *selected_index is
\* not written and keeps whatever the caller's variable held), otherwise the
\* token is inserted into the channel's list.
SelRegister(t) ==
    LET c == th[t].ch
        r == th[t]
    IN
    /\ ~crashed /\ r.pc = "lock" /\ r.fn = "sreg" /\ mutex[c] = 0
    /\ IF closed[c]
       THEN /\ semAlive' = [semAlive EXCEPT ![t] = FALSE]
            /\ \E ix \in 0..(MaxIntents - 1) :
                 th' = [th EXCEPT ![t] = [Returned(r, "CLOSED_ERROR") EXCEPT !.sidx = ix]]
            /\ Release(t, c)
            /\ UNCHANGED <<cap, buf, closed, listVars, semCount, histVars, nextVal, nops,
                           nsel, ubPost, crashed, destroyed>>
       ELSE \E node \in MallocChoices(Mem(head[c], count[c])) :
              LET M == list_insert(Mem(head[c], count[c]), node, t) IN
              IF M.crash
              THEN Crash
              ELSE /\ StoreMem(M, c)
                   /\ th' = [th EXCEPT ![t] =
                               IF r.si + 1 < NInts(r)
                               THEN [r EXCEPT !.si = @ + 1, !.ch = IntentAt(r, r.si + 1).ch,
                                              !.pc = "lock"]
                               ELSE Attempt(r, 0)]
                   /\ Release(t, c)
                   /\ reg' = [reg EXCEPT ![c] = @ \cup {t}]
                   /\ UNCHANGED <<cap, buf, closed, semVars, sent, rcvd, closeRet, nextVal,
                                  nops, nsel, ubPost, crashed, destroyed>>

\* sem_wait(&select) at the end of a sweep (channel.c 234), then the next sweep.
SelWait(t) ==
    /\ ~crashed /\ th[t].pc = "swait" /\ semCount[t] > 0
    /\ semCount' = [semCount EXCEPT ![t] = @ - 1]
    /\ th' = [th EXCEPT ![t] = Attempt(@, 0)]
    /\ UNCHANGED <<chanVars, listVars, semAlive, histVars, nextVal, nops, nsel, ubPost, crashed, destroyed>>

\* channel_select returns (channel.c 229-231).
SelReturn(r) ==
    [Returned(r, r.st) EXCEPT !.sidx = r.si]

\* One round of the deregistration loop (channel.c 225-227):
\* list_remove(list, list_find(list, &select)); after the last round
\* *selected_index is set, the semaphore destroyed and the status returned.
SelDeregister(t) ==
    LET c == th[t].ch
        r == th[t]
        M == Mem(head[c], count[c])
    IN
    /\ ~crashed /\ r.pc = "lock" /\ r.fn = "sdereg" /\ mutex[c] = 0
    /\ \E f \in list_find(M, t) :
         IF f = CRASH
         THEN Crash
         ELSE IF f = HANG
         THEN /\ Hold(t, c)
              /\ th' = [th EXCEPT ![t].pc = "hung"]
              /\ UNCHANGED <<cap, buf, closed, listVars, semVars, histVars, nextVal, nops,
                             nsel, ubPost, crashed, destroyed>>
         ELSE \E M2 \in list_remove(M, f) :
                IF M2.crash
                THEN Crash
                ELSE /\ StoreMem(M2, c)
                     /\ IF r.sj + 1 < NInts(r)
                        THEN /\ th' = [th EXCEPT ![t] =
                                         [r EXCEPT !.sj = @ + 1,
                                                   !.ch = IntentAt(r, r.sj + 1).ch,
                                                   !.pc = "lock"]]
                             /\ UNCHANGED semAlive
                        ELSE /\ th' = [th EXCEPT ![t] = SelReturn(r)]
                             /\ semAlive' = [semAlive EXCEPT ![t] = FALSE]
                     /\ Release(t, c)
                     /\ reg' = IF f = NULL THEN reg ELSE [reg EXCEPT ![c] = @ \ {t}]
                     /\ UNCHANGED <<cap, buf, closed, semCount, sent, rcvd, closeRet,
                                    nextVal, nops, nsel, ubPost, crashed, destroyed>>

\* ---------------------------------------------------------------- channel_destroy
\* `if (!channel->is_closed)` of channel_destroy (channel.c 173, 177), read
\* without the mutex.
DestroyCheck_Any(c) == TRUE
DestroyCheck(c) == closed[c]

\* The status channel_destroy returns for an open channel (channel.c 175).
DestroyRefused == "DESTROY_ERROR"

\* channel_destroy (channel.c 171-190).  The function takes no lock: it is one
\* step whatever the other threads are doing.  An open channel is refused
\* and left alone; a closed one loses its buffer, mutex, condition variables,
\* list and itself.  pthread_mutex_destroy of a mutex that is locked is
\* undefined: it goes through, or it brings the process down.
Destroy(t) ==
    /\ ~crashed /\ CanStart(t)
    /\ \E c \in LiveChans :
         LET r == [Begin("destroy", c, 0) EXCEPT !.fn = "none", !.nolock = (mutex[c] # t)]
             same == UNCHANGED <<chanVars, listVars, semVars, histVars, nextVal, nsel, ubPost,
                                 destroyed>>
         IN
         IF ~DestroyCheck(c)
         THEN /\ th' = [th EXCEPT ![t] = Returned(r, DestroyRefused)]
              /\ same /\ UNCHANGED crashed
         ELSE \E M \in list_destroy(Mem(head[c], count[c])), busy \in {FALSE, mutex[c] # 0} :
                IF M.crash \/ busy
                THEN /\ th' = [th EXCEPT ![t] = [r EXCEPT !.pc = "dead"]]
                     /\ crashed' = TRUE
                     /\ same
                ELSE IF M.hang
                THEN /\ th' = [th EXCEPT ![t] = [r EXCEPT !.pc = "hung"]]
                     /\ same /\ UNCHANGED crashed
                ELSE /\ StoreMem(M, c)
                     /\ destroyed' = [destroyed EXCEPT ![c] = TRUE]
                     /\ reg' = [reg EXCEPT ![c] = {}]
                     /\ th' = [th EXCEPT ![t] = Returned(r, "SUCCESS")]
                     /\ UNCHANGED <<chanVars, semVars, sent, rcvd, closeRet, nextVal, nsel,
                                    ubPost, crashed>>
    /\ nops' = nops + 1

\* A thread that was inside a call on a channel when channel_destroy freed
\* it goes on in freed memory: its next step works on the old contents, as
\* every other action describes it, or it brings the process down, as here.
UseAfterFree(t) ==
    /\ ~crashed
    /\ th[t].pc \in {"lock", "relock", "foreach"} /\ destroyed[th[t].ch]
    /\ Crash

\* ---------------------------------------------------------------- specification
Next ==
    \/ \E t \in Threads, fn \in PlainFns, c \in Chans : CallBlocked(t, fn, c)
    \/ \E t \in Threads, ints \in IntentLists : StartSelect(t, ints)
    \/ \E t \in Threads : SpuriousWake(t)
    \/ \E t \in Threads : Send(t)
    \/ \E t \in Threads : Receive(t)
    \/ \E t \in Threads : NbSend(t)
    \/ \E t \in Threads : NbReceive(t)
    \/ \E t \in Threads : Close(t)
    \/ \E t \in Threads : Foreach(t)
    \/ \E t \in Threads : SelRegister(t)
    \/ \E t \in Threads : SelWait(t)
    \/ \E t \in Threads : SelDeregister(t)
    \/ \E t \in Threads : Destroy(t)
    \/ \E t \in Threads : UseAfterFree(t)

Spec == Init /\ [][Next]_vars

\* Every step a thread takes inside the library is eventually taken when it
\* stays possible (the scheduler runs every runnable thread); whether a
\* thread calls the library at all is up to the program.
Step(t) ==
    \/ (th[t].pc # "idle" /\ (Send(t) \/ Receive(t) \/ NbSend(t) \/ NbReceive(t) \/ Close(t)))
    \/ Foreach(t)
    \/ SelRegister(t)
    \/ SelWait(t)
    \/ SelDeregister(t)

FairSpec == Spec /\ \A t \in Threads : WF_vars(Step(t))

TypeOK ==
    /\ \A c \in Chans : Len(buf[c]) <= cap[c] /\ mutex[c] \in 0..NumThreads
    /\ \A t \in Threads : semCount[t] \in 0..SemMax


\* ---------------------------------------------------------------- claims
IsPrefix(a, b) == Len(a) <= Len(b) /\ \A i \in 1..Len(a) : a[i] = b[i]

\* Thread t is back from a call of `kind`.
Back(t, kind) == th[t].pc = "idle" /\ th[t].kind = kind

\* C1: on every channel the values received with SUCCESS, in the order in
\* which the receives completed, are a prefix of the values sent with
\* SUCCESS, in the order in which the sends completed: nothing is received
\* that was not sent, nothing twice, nothing out of order.
C1_ReceivedIsPrefixOfSent == \A c \in Chans : IsPrefix(rcvd[c], sent[c])

\* Two sends and one receive have completed on a channel whose buffer holds
\* two elements.
C1_Witness ==
    \E c \in Chans : cap[c] = 2 /\ Len(sent[c]) = 2 /\ Len(rcvd[c]) = 1 /\ Len(buf[c]) = 1

\* C2: a send, receive, try_send, try_receive or close that begins on a
\* channel after channel_close has returned SUCCESS on it returns
\* CLOSED_ERROR, and the buffer is as that call found it, also when it still
\* holds elements.
C2_ClosedRejectsAll ==
    \A t \in Threads :
        (th[t].pc = "idle" /\ th[t].kind \in PlainFns /\ th[t].startClosed)
            => /\ th[t].ret = "CLOSED_ERROR"
               /\ Len(buf[th[t].ch]) = th[t].seen

\* A receive that began after close returned is back with CLOSED_ERROR and
\* the buffer still holds an element.
C2_Witness ==
    \E t \in Threads :
        /\ Back(t, "nbrecv") /\ th[t].startClosed /\ th[t].ret = "CLOSED_ERROR"
        /\ buf[th[t].ch] # <<>>

\* Thread t is inside a channel_select call.
InSelect(t) == th[t].kind = "select" /\ th[t].pc # "idle"

\* Intent i (0-based) of the select call of thread t could be performed now.
Ready(t, i) ==
    LET it == IntentAt(th[t], i) IN
    /\ ~closed[it.ch]
    /\ \/ it.dir = "SEND" /\ Len(buf[it.ch]) < cap[it.ch]
       \/ it.dir = "RECV" /\ Len(buf[it.ch]) > 0

ReadySet(t) == {i \in 0..(NInts(th[t]) - 1) : Ready(t, i)}

\* No step that changes the state is possible any more: every call has
\* returned, is blocked for good, or runs a loop that changes nothing.
Done == ~ENABLED <<Next>>_vars

\* C3: a thread that is blocked in channel_send or channel_receive when its
\* channel is closed is woken and returns CLOSED_ERROR: no such waiter is
\* still inside its call when nothing can happen any more.
C3_WaitersReturnClosed ==
    Done => \/ crashed
            \/ \A t \in Threads :
                 ~(th[t].pc \in {"cwait", "relock"} /\ closed[th[t].ch])

\* C4: a channel_select call returns SUCCESS if and only if it performed
\* exactly one of its intents, selected_index is that intent's index, and a
\* call that returns another status performed none; a call that performed
\* an intent has returned when nothing can happen any more.
C4_SuccessIffOneIntent ==
    \A t \in Threads :
        /\ th[t].nexec <= 1
        /\ Back(t, "select") =>
             /\ th[t].ret = "SUCCESS" <=> th[t].nexec = 1
             /\ th[t].ret = "SUCCESS" => th[t].sidx = th[t].execi
        /\ (Done /\ ~crashed /\ th[t].kind = "select" /\ th[t].nexec = 1)
             => Back(t, "select")

\* C5: a token that is in the selectors list of a channel has not been
\* destroyed (it is removed from every list before sem_destroy), and no
\* channel posts to a destroyed token.
C5_TokenRemovedBeforeDestroy ==
    /\ \A n \in NodeIds : nstate[n] = "live" => semAlive[ndata[n]]
    /\ ~ubPost

\* C6: when channel_select returns CLOSED_ERROR, selected_index is the index
\* of the intent whose channel it found closed.
C6_ClosedIndexReported ==
    \A t \in Threads :
        (Back(t, "select") /\ th[t].ret = "CLOSED_ERROR")
            => /\ th[t].sidx = th[t].si
               /\ closed[IntentAt(th[t], th[t].sidx).ch]

\* C7: a channel_select call that found no intent ready and waited on its
\* token returns once one of its channels is closed: it is not still inside
\* the call when nothing can happen any more.
C7_BlockedSelectSeesClose ==
    Done => \/ crashed
            \/ \A t \in Threads :
                 ~( /\ InSelect(t) /\ th[t].waited /\ th[t].nexec = 0
                    /\ \E i \in 0..(NInts(th[t]) - 1) : closed[IntentAt(th[t], i).ch] )

\* C8: a call that performed an intent while an intent of higher index was
\* ready as well performed the lower one, and has returned SUCCESS with that
\* index in selected_index when nothing can happen any more.
C8_LowestIndexWins ==
    \A t \in Threads :
        ( /\ th[t].kind = "select" /\ th[t].nexec = 1
          /\ \E j \in ReadySet(t) : j > th[t].execi
          /\ Done /\ ~crashed )
            => (Back(t, "select") /\ th[t].ret = "SUCCESS" /\ th[t].sidx = th[t].execi)

\* C9: a channel_select call that has performed nothing does not stay inside
\* the call for ever while one of its intents is ready.
C9_NoLostWakeup ==
    Done => \/ crashed
            \/ \A t \in Threads :
                 ~(InSelect(t) /\ th[t].waited /\ th[t].nexec = 0 /\ ReadySet(t) # {})

C11_BlockedCallProceeds ==
    Done => \/ crashed
            \/ \A t \in Threads :
                 ~( /\ th[t].pc \in {"cwait", "relock"} /\ ~closed[th[t].ch]
                    /\ \/ th[t].fn = "send" /\ Len(buf[th[t].ch]) < cap[th[t].ch]
                       \/ th[t].fn = "recv" /\ Len(buf[th[t].ch]) > 0 )

\* The state of a channel: Open, Closed or Destroyed.
ChanState(c) ==
    IF destroyed[c] THEN "Destroyed" ELSE IF closed[c] THEN "Closed" ELSE "Open"

\* The channels of the call thread u is in.
CallChans(u) ==
    IF th[u].pc = "idle" THEN {}
    ELSE IF th[u].kind = "select" THEN {th[u].ints[i].ch : i \in 1..Len(th[u].ints)}
    ELSE {th[u].ch}

\* No thread is inside an operation on channel c.
Quiet(c) == \A u \in Threads : c \notin CallChans(u)

\* The step is a call of channel_destroy by thread t.
DestroyStep(t) == th[t].pc = "idle" /\ th'[t] # th[t] /\ th'[t].kind = "destroy"

\* C12: channel_destroy of an open channel returns DESTROY_ERROR and changes
\* nothing; channel_destroy of a closed channel that no thread is inside
\* returns SUCCESS and the channel is Destroyed; a channel's state only goes
\* from Open to Closed, by channel_close, and from Closed to Destroyed, by
\* channel_destroy.
C12_DestroyOnlyAfterClose ==
    [][ /\ \A t \in Threads :
             DestroyStep(t) =>
                LET c == th'[t].ch IN
                /\ ~closed[c] =>
                      /\ th'[t].pc = "idle" /\ th'[t].ret = "DESTROY_ERROR"
                      /\ UNCHANGED <<chanVars, listVars, semVars, histVars, destroyed, crashed>>
                /\ (closed[c] /\ Quiet(c)) =>
                      /\ th'[t].pc = "idle" /\ th'[t].ret = "SUCCESS"
                      /\ destroyed'[c] /\ ~crashed'
        /\ \A c \in Chans :
             ChanState(c)' # ChanState(c) =>
                \/ /\ ChanState(c) = "Open" /\ ChanState(c)' = "Closed"
                   /\ \E t \in Threads :
                        th'[t] # th[t] /\ th'[t].kind = "close" /\ th'[t].ch = c
                \/ /\ ChanState(c) = "Closed" /\ ChanState(c)' = "Destroyed"
                   /\ \E t \in Threads : DestroyStep(t) /\ th'[t].ch = c
      ]_vars

\* One channel_destroy has returned SUCCESS for a closed channel, which is
\* Destroyed, and another DESTROY_ERROR for a channel that is still Open.
C12_Witness ==
    \E t, u \in Threads :
        /\ Back(t, "destroy") /\ th[t].ret = "SUCCESS" /\ ChanState(th[t].ch) = "Destroyed"
        /\ Back(u, "destroy") /\ th[u].ret = "DESTROY_ERROR" /\ ChanState(th[u].ch) = "Open"

\* C13: once channel_close has returned SUCCESS the closed flag is set and
\* stays set; every channel_close returns SUCCESS or CLOSED_ERROR, no two
\* calls on one channel return SUCCESS, and when nothing can happen any more
\* every channel_close has returned and one of them with SUCCESS.
C13_CloseOnce ==
    /\ \A c \in Chans : closeRet[c] => closed[c]
    /\ \A t \in Threads :
         Back(t, "close") => th[t].ret \in {"SUCCESS", "CLOSED_ERROR"}
    /\ \A t, u \in Threads :
         (t # u /\ Back(t, "close") /\ Back(u, "close") /\ th[t].ch = th[u].ch)
            => ~(th[t].ret = "SUCCESS" /\ th[u].ret = "SUCCESS")
    /\ (Done /\ ~crashed) =>
         \A t \in Threads :
            th[t].kind = "close" => (Back(t, "close") /\ closeRet[th[t].ch])

\* C14: a list_foreach(channel->select, sem_post) under way holds the
\* channel's mutex and has called sem_post at most once for each element of
\* the list, and it has finished, so that the operation returned, when
\* nothing can happen any more.
C14_PostsOncePerToken ==
    \A t \in Threads :
        /\ th[t].pc = "foreach" =>
              /\ mutex[th[t].ch] = t
              /\ th[t].posts <= Cardinality(reg[th[t].ch])
        /\ (Done /\ ~crashed) => th[t].pc # "foreach"

\* C15: no call has read or written is_closed, the buffer or the selectors
\* list of a channel without holding the channel's mutex.
C15_AccessUnderMutex == \A t \in Threads : ~th[t].nolock

\* The channel mutexes thread t holds.
Held(t) == {c \in Chans : mutex[c] = t}

\* C16: no thread holds the mutexes of two channels; the mutex a thread
\* holds is that of the channel its current step works on, and a thread in
\* sem_wait, or back from its call, holds none.
C16_OneMutexAtATime ==
    \A t \in Threads :
        /\ Cardinality(Held(t)) <= 1
        /\ Held(t) \subseteq {th[t].ch}
        /\ th[t].pc \in {"swait", "idle", "lock", "cwait", "relock"} => Held(t) = {}

\* A channel_select call with two intents is past registration and inside
\* the attempt on its second channel, holding that channel's mutex only.
C16_Witness ==
    \E t \in Threads :
        /\ InSelect(t) /\ NInts(th[t]) = 2 /\ th[t].pc = "foreach"
        /\ Held(t) = {IntentAt(th[t], 1).ch}

\* The statuses with which a send or receive operation gives up.
RefusalStatus == {"CLOSED_ERROR", "CHANNEL_FULL", "CHANNEL_EMPTY"}

\* In this step a send / receive / try_send / try_receive of thread t, called
\* by the thread or by its channel_select, returns a status of RefusalStatus.
RefusedStep(t) ==
    /\ th'[t] # th[t]
    /\ \/ /\ th'[t].kind \in {"send", "recv", "nbsend", "nbrecv"}
          /\ th'[t].pc = "idle" /\ th'[t].ret \in RefusalStatus
       \/ /\ th[t].kind = "select" /\ th[t].pc = "lock" /\ th[t].fn \in {"nbsend", "nbrecv"}
          /\ th'[t].pc # "foreach" /\ th'[t].st \in RefusalStatus

\* C17: a step in which a send or receive operation returns CLOSED_ERROR,
\* CHANNEL_FULL or CHANNEL_EMPTY leaves the buffers, the closed flags, the
\* selectors lists and the semaphores as they were and wakes no thread out
\* of pthread_cond_wait.
C17_RefusalChangesNothing ==
    [][ \A t \in Threads :
            RefusedStep(t) =>
                /\ UNCHANGED <<buf, closed, listVars, semVars, histVars, destroyed>>
                /\ \A u \in Threads \ {t} : th'[u] = th[u]
      ]_vars

\* A try_send has returned CHANNEL_FULL on a channel on which another thread
\* is blocked in pthread_cond_wait.
C17_Witness ==
    \E t, u \in Threads :
        /\ Back(t, "nbsend") /\ th[t].ret = "CHANNEL_FULL"
        /\ th[u].pc = "cwait" /\ th[u].ch = th[t].ch

RECURSIVE ChainFrom(_, _)
ChainFrom(p, seen) ==
    IF p = NULL THEN <<>>
    ELSE IF p = WILD \/ p \in seen \/ nstate[p] # "live" THEN <<WILD>>
    ELSE <<p>> \o ChainFrom(nnext[p], seen \cup {p})

Chain(c) == ChainFrom(head[c], {})

\* The walk reaches NULL through live nodes, each of them once.
Ends(c) == \A i \in 1..Len(Chain(c)) : Chain(c)[i] # WILD

\* C19: on the selectors list of every channel the walk of list_foreach ends
\* and passes every datum that was inserted and not removed exactly once,
\* and list_find of a datum that is not in the list returns NULL.
C19_ForeachVisitsEachOnce ==
    \A c \in LiveChans :
        /\ Ends(c)
        /\ \A d \in reg[c] :
             Cardinality({i \in 1..Len(Chain(c)) : ndata[Chain(c)[i]] = d}) = 1
        /\ \A d \in Tokens \ reg[c] : list_find(Mem(head[c], count[c]), d) = {NULL}

\* C20: the selectors list of every channel is a NULL-terminated chain of
\* live nodes whose data are the data inserted and not removed; head's prev
\* is NULL, next and prev mirror each other, count is the chain's length, no
\* pointer of the list refers to a freed node, and a list that everything
\* was removed from is empty again, head = NULL.
C20_ListWellFormed ==
    \A c \in LiveChans :
        /\ Ends(c)
        /\ {ndata[Chain(c)[i]] : i \in 1..Len(Chain(c))} = reg[c]
        /\ Len(Chain(c)) = Cardinality(reg[c])
        /\ count[c] = Len(Chain(c))
        /\ head[c] # NULL => nprev[head[c]] = NULL
        /\ \A i \in 1..(Len(Chain(c)) - 1) : nprev[Chain(c)[i + 1]] = Chain(c)[i]
        /\ reg[c] = {} => head[c] = NULL
        /\ head[c] \in NodeIds => nstate[head[c]] = "live"
        /\ \A n \in NodeIds :
             nstate[n] = "live" =>
                /\ nnext[n] \in NodeIds => nstate[nnext[n]] = "live"
                /\ nprev[n] \in NodeIds => nstate[nprev[n]] = "live"

====
